---- MODULE Spec2Model ----
(***************************************************************************)
(* Model of mysql/resource_grant.go: the grant entities, their statement   *)
(* generators, the parser of SHOW GRANTS rows, the privilege canonicalizer *)
(* and the create / read / update / delete / import handlers.              *)
(*                                                                         *)
(* A Go string is a sequence of one-character strings, so that trimming,   *)
(* splitting, upper-casing and regular-expression matching are computed    *)
(* character by character as the code computes them.                       *)
(***************************************************************************)
EXTENDS Integers, Sequences, FiniteSets, TLC

VARIABLES d, op, pc, inp, calls, ret, out,
          psIn, psRow, psOut, psPc,
          npA, npB, npOutA, npOutB, npOutAA, npPc

vars == <<d, op, pc, inp, calls, ret, out,
          psIn, psRow, psOut, psPc,
          npA, npB, npOutA, npOutB, npOutAA, npPc>>

lifeVars == <<d, op, pc, inp, calls, ret, out>>
parseVars == <<psIn, psRow, psOut, psPc>>
normVars == <<npA, npB, npOutA, npOutB, npOutAA, npPc>>

(***************************************************************************)
(* Characters.  Ascii lists the printable ASCII characters from code 32 to *)
(* code 126 in code order; Ord gives the code, which is the byte order     *)
(* sort.Strings compares by.                                               *)
(***************************************************************************)
\* the back-tick character, which a TLA+ string cannot hold
Backtick == "BACKTICK"

Ascii ==
  <<" ", "!", "\"", "#", "$", "%", "&", "'", "(", ")", "*", "+", ",", "-", ".", "/",
    "0", "1", "2", "3", "4", "5", "6", "7", "8", "9", ":", ";", "<", "=", ">", "?",
    "@", "A", "B", "C", "D", "E", "F", "G", "H", "I", "J", "K", "L", "M", "N", "O",
    "P", "Q", "R", "S", "T", "U", "V", "W", "X", "Y", "Z", "[", "\\", "]", "^", "_",
    Backtick, "a", "b", "c", "d", "e", "f", "g", "h", "i", "j", "k", "l", "m", "n", "o",
    "p", "q", "r", "s", "t", "u", "v", "w", "x", "y", "z", "{", "|", "}", "~">>

Ord(c) ==
  IF c = "\t" THEN 9
  ELSE IF c = "\n" THEN 10
  ELSE 31 + (CHOOSE i \in 1..Len(Ascii) : Ascii[i] = c)


\* unicode.IsSpace and the regexp class \s, on the characters of the model
IsSpace(c) == c \in {" ", "\t", "\n"}

\* the regexp class \w
IsWord(c) == c = "_" \/ Ord(c) \in (65..90) \cup (97..122) \cup (48..57)

\* the character of code n
Chr(n) == Ascii[n - 31]

\* the upper-case and the lower-case form of the character c of code n
UpperOf(c, n) == IF n \in 97..122 THEN Chr(n - 32) ELSE c
LowerOf(c, n) == IF n \in 65..90 THEN Chr(n + 32) ELSE c

UpperChar(c) == UpperOf(c, Ord(c))

(***************************************************************************)
(* The functions of package strings and sort the code calls.               *)
(***************************************************************************)
ToUpper(s) == [i \in 1..Len(s) |-> UpperChar(s[i])]

ToLower(s) == [i \in 1..Len(s) |-> LowerOf(s[i], Ord(s[i]))]

HasPrefix(s, pre) == Len(s) >= Len(pre) /\ SubSeq(s, 1, Len(pre)) = pre

HasSuffix(s, suf) ==
  Len(s) >= Len(suf) /\ SubSeq(s, Len(s) - Len(suf) + 1, Len(s)) = suf

\* strings.Trim(s, cutset): drop the leading and trailing characters in cutset
Trim(s, cutset) ==
  LET keep == {i \in 1..Len(s) : s[i] \notin cutset}
  IN IF keep = {} THEN <<>>
     ELSE SubSeq(s, CHOOSE i \in keep : \A j \in keep : i <= j,
                    CHOOSE i \in keep : \A j \in keep : i >= j)

\* strings.Split(s, sep) for a one-character separator
Split(s, sep) ==
  LET cuts == {i \in 1..Len(s) : s[i] = sep}
      n == Cardinality(cuts)
      \* position of the k-th separator; 0 before the first, Len(s)+1 after the last
      cut(k) == IF k = 0 THEN 0
                ELSE IF k = n + 1 THEN Len(s) + 1
                ELSE CHOOSE i \in cuts : Cardinality({j \in cuts : j < i}) = k - 1
  IN [k \in 1..(n + 1) |-> SubSeq(s, cut(k - 1) + 1, cut(k) - 1)]

RECURSIVE Join(_, _)
Join(list, sep) ==
  IF list = <<>> THEN <<>>
  ELSE IF Len(list) = 1 THEN list[1]
  ELSE list[1] \o sep \o Join(Tail(list), sep)

\* byte-wise lexicographic order of two strings
StrLess(a, b) ==
  \E i \in 1..(Len(b)) :
     /\ i <= Len(a) + 1
     /\ \A j \in 1..(i - 1) : a[j] = b[j]
     /\ (i = Len(a) + 1 \/ Ord(a[i]) < Ord(b[i]))

RECURSIVE InsertSorted(_, _)
InsertSorted(list, x) ==
  IF list = <<>> THEN <<x>>
  ELSE IF StrLess(x, list[1]) THEN <<x>> \o list
  ELSE <<list[1]>> \o InsertSorted(Tail(list), x)

\* sort.Strings
RECURSIVE SortStrings(_)
SortStrings(list) ==
  IF list = <<>> THEN <<>>
  ELSE InsertSorted(SortStrings(SubSeq(list, 1, Len(list) - 1)), list[Len(list)])

(***************************************************************************)
(* The fields "privileges" and "roles" are sets of strings (TypeSet with   *)
(* Set: schema.HashString): a set keeps one element for each key, the key  *)
(* of a string being its CRC-32 checksum written in decimal, and lists its *)
(* elements in the order of their keys, compared as strings.  A checksum   *)
(* is kept as its two halves of 16 bits.                                   *)
(***************************************************************************)
RECURSIVE Xor(_, _)
Xor(a, b) ==
  IF a = 0 THEN b
  ELSE IF b = 0 THEN a
  ELSE 2 * Xor(a \div 2, b \div 2) + ((a + b) % 2)

\* n bits of the checksum: a shift to the right, and the polynomial
\* 0xEDB88320 when the bit shifted out is set
RECURSIVE crcBits(_, _, _)
crcBits(hi, lo, n) ==
  IF n = 0 THEN <<hi, lo>>
  ELSE IF lo % 2 = 1
  THEN crcBits(Xor(hi \div 2, 60856), Xor((lo \div 2) + (hi % 2) * 32768, 33568), n - 1)
  ELSE crcBits(hi \div 2, (lo \div 2) + (hi % 2) * 32768, n - 1)

\* one byte of the checksum
crcByte(crc, byte) == crcBits(crc[1], Xor(crc[2], byte), 8)

\* the checksum of the first n bytes of s, before the final complement
RECURSIVE crcOf(_, _)
crcOf(s, n) ==
  IF n = 0 THEN <<65535, 65535>> ELSE crcByte(crcOf(s, n - 1), Ord(s[n]))

Complement(crc) == <<65535 - crc[1], 65535 - crc[2]>>

\* strconv.Itoa of the number of halves crc[1] and crc[2]
RECURSIVE Itoa(_)
Itoa(crc) ==
  IF crc[1] = 0 /\ crc[2] < 10 THEN <<Chr(48 + crc[2])>>
  ELSE Append(Itoa(<<crc[1] \div 10, ((crc[1] % 10) * 65536 + crc[2]) \div 10>>),
              Chr(48 + (((crc[1] % 10) * 65536 + crc[2]) % 10)))

\* the key of a string in a set: strconv.Itoa of crc32.ChecksumIEEE
HashString(s) == Itoa(Complement(crcOf(s, Len(s))))

\* Set.Add on the list of a set: the element takes the place of its key,
\* unless the set holds an element of that key
RECURSIVE AddToSet(_, _, _)
AddToSet(listed, x, key) ==
  IF listed = <<>> THEN <<x>>
  ELSE IF HashString(listed[1]) = key THEN listed
  ELSE IF StrLess(key, HashString(listed[1])) THEN <<x>> \o listed
  ELSE <<listed[1]>> \o AddToSet(Tail(listed), x, key)

\* Set.List of the set that d.Set builds from a list of strings
RECURSIVE SetList(_)
SetList(list) ==
  IF list = <<>> THEN <<>>
  ELSE AddToSet(SetList(SubSeq(list, 1, Len(list) - 1)), list[Len(list)],
                HashString(list[Len(list)]))

(***************************************************************************)
(* Regular expressions (package regexp).  A pattern is a sequence of       *)
(* items: a literal, a greedy repetition of a character class, the start   *)
(* or the end of a capture group, an optional sub-pattern, an alternation  *)
(* of literals, the anchors ^ and $ and the word boundary \b.  Match       *)
(* follows the leftmost-first rule of package regexp: every repetition     *)
(* takes as many characters as leave the rest of the pattern a match.      *)
(***************************************************************************)
Lit(s) == [t |-> "lit", s |-> s, ci |-> FALSE]
Alt(alts, ci) == [t |-> "alt", alts |-> alts, ci |-> ci]
Rep(cls, min) == [t |-> "rep", cls |-> cls, min |-> min]
Open(g) == [t |-> "open", g |-> g]
Close(g) == [t |-> "close", g |-> g]
Opt(items) == [t |-> "opt", items |-> items]
Bol == [t |-> "bol"]
Eol == [t |-> "eol"]
WordB == [t |-> "wordb"]

\* character classes: the listed characters, \w and \s, possibly negated
Cls(neg, chars, word, space) ==
  [neg |-> neg, chars |-> chars, word |-> word, space |-> space]
ClsSpace == Cls(FALSE, {}, FALSE, TRUE)              \* \s
ClsPrivs == Cls(FALSE, {","}, TRUE, TRUE)            \* [\w\s,]
ClsDot == Cls(TRUE, {"\n"}, FALSE, FALSE)            \* .
ClsNotQuote == Cls(TRUE, {"'"}, FALSE, FALSE)        \* [^']
ClsNotDot == Cls(TRUE, {"."}, FALSE, FALSE)          \* [^.]
ClsNotParen == Cls(TRUE, {"("}, FALSE, FALSE)        \* [^(]

ClassHas(cls, c) ==
  cls.neg # (c \in cls.chars \/ (cls.word /\ IsWord(c)) \/ (cls.space /\ IsSpace(c)))

LitAt(s, p, lit, ci) ==
  /\ p + Len(lit) - 1 <= Len(s)
  /\ \A j \in 1..Len(lit) :
        IF ci THEN UpperChar(s[p + j - 1]) = UpperChar(lit[j])
        ELSE s[p + j - 1] = lit[j]

\* the number of characters from position p on that are in the class
RunLen(s, p, cls) ==
  CHOOSE k \in 0..(Len(s) - p + 1) :
     /\ \A j \in p..(p + k - 1) : ClassHas(cls, s[j])
     /\ (p + k = Len(s) + 1 \/ ~ClassHas(cls, s[p + k]))

AtWordBoundary(s, p) ==
  LET before == p > 1 /\ IsWord(s[p - 1])
      after == p <= Len(s) /\ IsWord(s[p])
  IN before # after

NoMatch == [ok |-> FALSE]

RECURSIVE Match(_, _, _, _)
Match(items, s, p, caps) ==
  IF items = <<>> THEN [ok |-> TRUE, end |-> p, caps |-> caps]
  ELSE
    LET it == Head(items)
        rest == Tail(items)
    IN CASE it.t = "lit" ->
              IF LitAt(s, p, it.s, it.ci) THEN Match(rest, s, p + Len(it.s), caps)
              ELSE NoMatch
         [] it.t = "alt" ->
              LET hits == {k \in 1..Len(it.alts) :
                             /\ LitAt(s, p, it.alts[k], it.ci)
                             /\ Match(rest, s, p + Len(it.alts[k]), caps).ok}
              IN IF hits = {} THEN NoMatch
                 ELSE LET k == CHOOSE k \in hits : \A j \in hits : k <= j
                      IN Match(rest, s, p + Len(it.alts[k]), caps)
         [] it.t = "rep" ->
              LET run == RunLen(s, p, it.cls)
                  ends == {e \in (p + it.min)..(p + run) : Match(rest, s, e, caps).ok}
              IN IF ends = {} THEN NoMatch
                 ELSE Match(rest, s, CHOOSE e \in ends : \A f \in ends : e >= f, caps)
         [] it.t = "open" ->
              Match(rest, s, p, [caps EXCEPT ![it.g] = <<p, 0>>])
         [] it.t = "close" ->
              Match(rest, s, p, [caps EXCEPT ![it.g] = <<caps[it.g][1], p>>])
         [] it.t = "opt" ->
              LET with == Match(it.items \o rest, s, p, caps)
              IN IF with.ok THEN with ELSE Match(rest, s, p, caps)
         [] it.t = "bol" -> IF p = 1 THEN Match(rest, s, p, caps) ELSE NoMatch
         [] it.t = "eol" -> IF p = Len(s) + 1 THEN Match(rest, s, p, caps) ELSE NoMatch
         [] it.t = "wordb" ->
              IF AtWordBoundary(s, p) THEN Match(rest, s, p, caps) ELSE NoMatch

NoCaptures(re) == [g \in 1..re.groups |-> <<0, 0>>]

\* Regexp.MatchString: the pattern matches from some position from i on
RECURSIVE MatchFrom(_, _, _)
MatchFrom(re, s, i) ==
  IF i > Len(s) + 1 THEN FALSE
  ELSE IF Match(re.items, s, i, NoCaptures(re)).ok THEN TRUE
  ELSE MatchFrom(re, s, i + 1)

MatchString(re, s) == MatchFrom(re, s, 1)

\* the matched text followed by the text of every group ("" for a group that
\* took no part in the match), for the match m that starts at position i
Submatches(re, s, i, m) ==
  [g \in 1..(re.groups + 1) |->
     IF g = 1 THEN SubSeq(s, i, m.end - 1)
     ELSE IF m.caps[g - 1][2] = 0 THEN <<>>
     ELSE SubSeq(s, m.caps[g - 1][1], m.caps[g - 1][2] - 1)]

\* the submatches of the leftmost match that starts at position i or later
RECURSIVE FindFrom(_, _, _)
RECURSIVE FoundOrNext(_, _, _, _)
FindFrom(re, s, i) ==
  IF i > Len(s) + 1 THEN <<>>
  ELSE FoundOrNext(re, s, i, Match(re.items, s, i, NoCaptures(re)))

FoundOrNext(re, s, i, m) ==
  IF m.ok THEN Submatches(re, s, i, m) ELSE FindFrom(re, s, i + 1)

\* Regexp.FindStringSubmatch: the empty sequence (nil) without a match
FindStringSubmatch(re, s) == FindFrom(re, s, 1)

\* Regexp.ReplaceAllString(s, "") for a pattern that is one character class
RemoveAll(s, cls) == SelectSeq(s, LAMBDA c : ~ClassHas(cls, c))

(***************************************************************************)
(* The compiled patterns of the package.                                   *)
(***************************************************************************)
\* .*REQUIRE\s+(.*)
reRequire ==
  [groups |-> 1,
   items |-> <<Rep(ClsDot, 0), Lit(<<"R","E","Q","U","I","R","E">>), Rep(ClsSpace, 1),
               Open(1), Rep(ClsDot, 0), Close(1)>>]

\* '([^']*)'(@'([^']*)')?
userHostRegex ==
  [groups |-> 3,
   items |-> <<Lit(<<"'">>), Open(1), Rep(ClsNotQuote, 0), Close(1), Lit(<<"'">>),
               Opt(<<Open(2), Lit(<<"@","'">>), Open(3), Rep(ClsNotQuote, 0), Close(3),
                     Lit(<<"'">>), Close(2)>>)>>]

\* '[^']+'
roleRegex ==
  [groups |-> 0,
   items |-> <<Lit(<<"'">>), Rep(ClsNotQuote, 1), Lit(<<"'">>)>>]

\* GRANT\s+([\w\s,]+)\s+TO\s+(.+)
roleGrantRegex ==
  [groups |-> 2,
   items |-> <<Lit(<<"G","R","A","N","T">>), Rep(ClsSpace, 1), Open(1), Rep(ClsPrivs, 1), Close(1),
               Rep(ClsSpace, 1), Lit(<<"T","O">>), Rep(ClsSpace, 1),
               Open(2), Rep(ClsDot, 1), Close(2)>>]

\* \bGRANT OPTION\b|\bADMIN OPTION\b, one pattern per alternative
reGrantMatchString(s) ==
  \/ MatchString([groups |-> 0, items |-> <<WordB, Lit(<<"G","R","A","N","T"," ","O","P","T","I","O","N">>), WordB>>], s)
  \/ MatchString([groups |-> 0, items |-> <<WordB, Lit(<<"A","D","M","I","N"," ","O","P","T","I","O","N">>), WordB>>], s)

\* GRANT\s+([\w\s,]+)\s+ON\s+(FUNCTION|PROCEDURE)\s+([\w\s,]+)\s+TO\s+(.+)
procedureGrantRegex ==
  [groups |-> 4,
   items |-> <<Lit(<<"G","R","A","N","T">>), Rep(ClsSpace, 1), Open(1), Rep(ClsPrivs, 1), Close(1),
               Rep(ClsSpace, 1), Lit(<<"O","N">>), Rep(ClsSpace, 1),
               Open(2), Alt(<<<<"F","U","N","C","T","I","O","N">>, <<"P","R","O","C","E","D","U","R","E">>>>, FALSE), Close(2),
               Rep(ClsSpace, 1), Open(3), Rep(ClsPrivs, 1), Close(3),
               Rep(ClsSpace, 1), Lit(<<"T","O">>), Rep(ClsSpace, 1),
               Open(4), Rep(ClsDot, 1), Close(4)>>]

\* GRANT\s+([\w\s,]+)\s+ON\s+(.+)\s+TO\s+(.+)
tableGrantRegex ==
  [groups |-> 3,
   items |-> <<Lit(<<"G","R","A","N","T">>), Rep(ClsSpace, 1), Open(1), Rep(ClsPrivs, 1), Close(1),
               Rep(ClsSpace, 1), Lit(<<"O","N">>), Rep(ClsSpace, 1),
               Open(2), Rep(ClsDot, 1), Close(2),
               Rep(ClsSpace, 1), Lit(<<"T","O">>), Rep(ClsSpace, 1),
               Open(3), Rep(ClsDot, 1), Close(3)>>]

\* (?i)^(function|procedure) ([^.]*)$
kReProcedureWithoutDatabase ==
  [groups |-> 2,
   items |-> <<Bol, Open(1), Alt(<<<<"f","u","n","c","t","i","o","n">>, <<"p","r","o","c","e","d","u","r","e">>>>, TRUE), Close(1),
               Lit(<<" ">>), Open(2), Rep(ClsNotDot, 0), Close(2), Eol>>]

\* (?i)^(function|procedure) ([^.]*)\.([^.]*)$
kReProcedureWithDatabase ==
  [groups |-> 3,
   items |-> <<Bol, Open(1), Alt(<<<<"f","u","n","c","t","i","o","n">>, <<"p","r","o","c","e","d","u","r","e">>>>, TRUE), Close(1),
               Lit(<<" ">>), Open(2), Rep(ClsNotDot, 0), Close(2), Lit(<<".">>),
               Open(3), Rep(ClsNotDot, 0), Close(3), Eol>>]

\* "^([^(]*)\\((.*)\\)$", compiled inside normalizeColumnOrder
reColumns ==
  [groups |-> 2,
   items |-> <<Bol, Open(1), Rep(ClsNotParen, 0), Close(1), Lit(<<"(">>),
               Open(2), Rep(ClsDot, 0), Close(2), Lit(<<")">>), Eol>>]

\* "[ <backtick>]", compiled inside normalizePerms
ClsSpaceBacktick == Cls(FALSE, {" ", Backtick}, FALSE, FALSE)

(***************************************************************************)
(* Identities: User{User, Host} and Role{Role}.                            *)
(***************************************************************************)
User(user, host) == [t |-> "User", User |-> user, Host |-> host]
Role(role) == [t |-> "Role", Role |-> role]

\* User.SQLString and Role.SQLString
SQLString(u) ==
  IF u.t = "User" THEN <<"'">> \o u.User \o <<"'","@","'">> \o u.Host \o <<"'">>
  ELSE <<"'">> \o u.Role \o <<"'">>

(***************************************************************************)
(* Grants: the three implementations of MySQLGrant, and the nil interface. *)
(***************************************************************************)
NilGrant == [kind |-> "nil"]

TablePrivilegeGrant(database, table, privileges, grant, userOrRole, tlsOption) ==
  [kind |-> "table", Database |-> database, Table |-> table,
   Privileges |-> privileges, Grant |-> grant, UserOrRole |-> userOrRole,
   TLSOption |-> tlsOption]

ProcedurePrivilegeGrant(database, objectT, callableName, privileges, grant, userOrRole, tlsOption) ==
  [kind |-> "procedure", Database |-> database, ObjectT |-> objectT,
   CallableName |-> callableName, Privileges |-> privileges, Grant |-> grant,
   UserOrRole |-> userOrRole, TLSOption |-> tlsOption]

RoleGrant(roles, grant, userOrRole, tlsOption) ==
  [kind |-> "role", Roles |-> roles, Grant |-> grant, UserOrRole |-> userOrRole,
   TLSOption |-> tlsOption]

\* TablePrivilegeGrant.GetDatabase and ProcedurePrivilegeGrant.GetDatabase
GetDatabase(g) ==
  IF g.Database # <<"*">> /\ ~HasSuffix(g.Database, <<Backtick>>)
  THEN <<Backtick>> \o g.Database \o <<Backtick>>
  ELSE g.Database

\* TablePrivilegeGrant.GetTable
GetTable(g) ==
  IF g.Table = <<"*">> \/ g.Table = <<>> THEN <<"*">>
  ELSE <<Backtick>> \o g.Table \o <<Backtick>>

\* GetId of the three grants
GetId(g) ==
  LET u == g.UserOrRole
      who == IF u.t = "User" THEN u.User \o <<"@">> \o u.Host ELSE u.Role
  IN IF g.kind = "role" THEN who ELSE who \o <<":">> \o GetDatabase(g)

\* the object reference of a table or routine statement
ObjectRef(g) ==
  IF g.kind = "table" THEN GetDatabase(g) \o <<".">> \o GetTable(g)
  ELSE g.ObjectT \o <<" ">> \o GetDatabase(g) \o <<".">> \o g.CallableName

RequireClause(g) ==
  IF g.TLSOption # <<>> /\ ToLower(g.TLSOption) # <<"n","o","n","e">>
  THEN <<" ","R","E","Q","U","I","R","E"," ">> \o g.TLSOption
  ELSE <<>>

\* SQLGrantStatement of the three grants
SQLGrantStatement(g) ==
  IF g.kind = "role"
  THEN <<"G","R","A","N","T"," ">> \o Join(g.Roles, <<","," ">>) \o <<" ","T","O"," ">> \o SQLString(g.UserOrRole)
       \o RequireClause(g)
       \o (IF g.Grant THEN <<" ","W","I","T","H"," ","A","D","M","I","N"," ","O","P","T","I","O","N">> ELSE <<>>)
  ELSE <<"G","R","A","N","T"," ">> \o Join(g.Privileges, <<","," ">>) \o <<" ","O","N"," ">> \o ObjectRef(g)
       \o <<" ","T","O"," ">> \o SQLString(g.UserOrRole)
       \o RequireClause(g)
       \o (IF g.Grant THEN <<" ","W","I","T","H"," ","G","R","A","N","T"," ","O","P","T","I","O","N">> ELSE <<>>)

\* SQLPartialRevokePrivilegesStatement of the table and the routine grant
SQLPartialRevokePrivilegesStatement(g, privilegesToRevoke) ==
  <<"R","E","V","O","K","E"," ">> \o Join(privilegesToRevoke, <<","," ">>) \o <<" ","O","N"," ">> \o ObjectRef(g)
  \o <<" ","F","R","O","M"," ">> \o SQLString(g.UserOrRole)
  \o (IF g.Grant THEN <<" ","W","I","T","H"," ","G","R","A","N","T"," ","O","P","T","I","O","N">> ELSE <<>>)

\* SQLRevokeStatement of the three grants
SQLRevokeStatement(g) ==
  IF g.kind = "role"
  THEN <<"R","E","V","O","K","E"," ">> \o Join(g.Roles, <<","," ">>) \o <<" ","F","R","O","M"," ">> \o SQLString(g.UserOrRole)
  ELSE SQLPartialRevokePrivilegesStatement(g, g.Privileges)

\* the type assertion grant.(PrivilegesPartiallyRevocable)
IsPartiallyRevocable(g) == g.kind \in {"table", "procedure"}

(***************************************************************************)
(* The privilege canonicalizer.                                            *)
(***************************************************************************)
removeUselessPerms(grants) == SelectSeq(grants, LAMBDA g : g # <<"U","S","A","G","E">>)

\* the loop of extractPermTypes from character i on
RECURSIVE extractLoop(_, _, _, _, _)
extractLoop(g, i, grants, currentWord, inParentheses) ==
  IF i > Len(g) THEN Append(grants, currentWord)
  ELSE LET b == g[i]
       IN CASE b = "," ->
                 IF inParentheses
                 THEN extractLoop(g, i + 1, grants, Append(currentWord, b), inParentheses)
                 ELSE extractLoop(g, i + 1, Append(grants, currentWord), <<>>, inParentheses)
            [] b = "(" -> extractLoop(g, i + 1, grants, Append(currentWord, b), TRUE)
            [] b = ")" -> extractLoop(g, i + 1, grants, Append(currentWord, b), FALSE)
            [] OTHER ->
                 IF IsSpace(b) /\ currentWord = <<>>
                 THEN extractLoop(g, i + 1, grants, currentWord, inParentheses)
                 ELSE extractLoop(g, i + 1, grants, Append(currentWord, b), inParentheses)

extractPermTypes(g) == extractLoop(g, 1, <<>>, <<>>, FALSE)

\* the token of the name and the column list the pattern found in perm
sortedColumns(m) ==
  m[2] \o <<"(">>
       \o Join(SortStrings([i \in 1..Len(Split(m[3], ",")) |->
                              Trim(Split(m[3], ",")[i], {Backtick, " "})]), <<","," ">>)
       \o <<")">>

\* m is re.FindStringSubmatch(perm)
columnOrder(perm, m) == IF Len(m) < 3 THEN perm ELSE sortedColumns(m)

normalizeColumnOrder(perm) == columnOrder(perm, FindStringSubmatch(reColumns, perm))

\* a variant of permAlias that knows the spelling ALL alone
permAliasAllOnly(permUcase) ==
  IF permUcase = <<"A","L","L">> THEN <<"A","L","L"," ","P","R","I","V","I","L","E","G","E","S">> ELSE permUcase

\* the alias of the two spellings of ALL
permAlias(permUcase) ==
  IF permUcase = <<"A","L","L">> \/ permUcase = <<"A","L","L","P","R","I","V","I","L","E","G","E","S">> THEN <<"A","L","L"," ","P","R","I","V","I","L","E","G","E","S">>
  ELSE permUcase

\* the body of the loop of normalizePerms
normalizePerm(perm) ==
  normalizeColumnOrder(permAlias(ToUpper(RemoveAll(perm, ClsSpaceBacktick))))

\* the list of the canonical tokens
canonicalTokens(perms) == [i \in 1..Len(perms) |-> normalizePerm(perms[i])]

\* a variant of normalizePerms that sorts the tokens
normalizePermsSorted(perms) == SortStrings(removeUselessPerms(canonicalTokens(perms)))

normalizePerms(perms) == removeUselessPerms(canonicalTokens(perms))

(***************************************************************************)
(* The parser of one row of SHOW GRANTS.  The result is the pair the Go    *)
(* function returns: a grant (NilGrant for nil) and an error ("" for nil). *)
(***************************************************************************)
ParseFailed == "failed to parse grant statement"

Failed == [grant |-> NilGrant, err |-> ParseFailed]
Parsed(grant) == [grant |-> grant, err |-> ""]

\* the identity of a row: the login pattern first, then the role pattern
userOrRoleOf(userHostMatches, roleMatches) ==
  IF Len(userHostMatches) = 4
  THEN [ok |-> TRUE,
        u |-> User(Trim(userHostMatches[2], {Backtick, "'", " "}),
                   Trim(userHostMatches[4], {Backtick, "'", " "}))]
  ELSE IF Len(roleMatches) = 1
  THEN [ok |-> TRUE, u |-> Role(Trim(roleMatches[1], {Backtick, "'", " "}))]
  ELSE [ok |-> FALSE]

parseUserOrRole(grantStr) ==
  userOrRoleOf(FindStringSubmatch(userHostRegex, grantStr),
               FindStringSubmatch(roleRegex, grantStr))

\* the REQUIRE clause of a row
tlsOptionOf(requireMatches) ==
  IF Len(requireMatches) = 2 THEN requireMatches[2] ELSE <<>>

parseTlsOption(grantStr) == tlsOptionOf(FindStringSubmatch(reRequire, grantStr))

\* the roles between GRANT and TO
rolesOf(rolesStart) ==
  [i \in 1..Len(rolesStart) |-> Trim(rolesStart[i], {Backtick, "@", "%", "\"", " "})]

\* the three branches of parseGrantFromRow, each on the submatches of its
\* pattern, and the error when none has matched
parseTableGrant(tableMatches, grantOption, userOrRole, tlsOption) ==
  IF Len(tableMatches) = 4
  THEN Parsed(TablePrivilegeGrant(
                Trim(tableMatches[3], {Backtick, "\""}),
                Trim(tableMatches[4], {Backtick, "\""}),
                normalizePerms(extractPermTypes(tableMatches[2])),
                grantOption, userOrRole, tlsOption))
  ELSE Failed

parseProcedureGrant(grantStr, procedureMatches, grantOption, userOrRole, tlsOption) ==
  IF Len(procedureMatches) = 5
  THEN Parsed(ProcedurePrivilegeGrant(
                Trim(procedureMatches[4], {Backtick, "\""}),
                procedureMatches[3],
                Trim(procedureMatches[4], {Backtick, "\""}),
                normalizePerms(extractPermTypes(procedureMatches[2])),
                grantOption, userOrRole, tlsOption))
  ELSE parseTableGrant(FindStringSubmatch(tableGrantRegex, grantStr),
                       grantOption, userOrRole, tlsOption)

parseRoleGrant(grantStr, roleMatches, grantOption, userOrRole, tlsOption) ==
  IF Len(roleMatches) = 3
  THEN Parsed(RoleGrant(rolesOf(Split(roleMatches[2], ",")), grantOption,
                        userOrRole, tlsOption))
  ELSE parseProcedureGrant(grantStr, FindStringSubmatch(procedureGrantRegex, grantStr),
                           grantOption, userOrRole, tlsOption)

\* the row once its REQUIRE clause and its identity are parsed
parseStatement(grantStr, tlsOption, who) ==
  IF ~who.ok THEN Failed
  ELSE parseRoleGrant(grantStr, FindStringSubmatch(roleGrantRegex, grantStr),
                      reGrantMatchString(grantStr), who.u, tlsOption)

parseGrantFromRow(grantStr) ==
  IF HasPrefix(grantStr, <<"R","E","V","O","K","E">>) THEN [grant |-> NilGrant, err |-> ""]
  ELSE parseStatement(grantStr, parseTlsOption(grantStr), parseUserOrRole(grantStr))

(***************************************************************************)
(* The database: errors of the driver, the answer to SHOW GRANTS, the      *)
(* server version.                                                         *)
(***************************************************************************)
ErrNil == [t |-> "nil"]
MySQLError(number) == [t |-> "mysql", Number |-> number]   \* *mysql.MySQLError

\* a variant of isNonExistingGrant that does not know the code 1403
isNonExistingGrantTwoCodes(err) ==
  err.t = "mysql" /\ (err.Number = 1141 \/ err.Number = 1147)

isNonExistingGrant(err) ==
  err.t = "mysql" /\ (err.Number = 1141 \/ err.Number = 1147 \/ err.Number = 1403)

\* version.GreaterThan on <<major, minor, patch>>
GreaterThan(v, w) ==
  \/ v[1] > w[1]
  \/ v[1] = w[1] /\ v[2] > w[2]
  \/ v[1] = w[1] /\ v[2] = w[2] /\ v[3] > w[3]

\* a variant of supportsRoles that requires a version after 5.0.0
supportsRolesSince5(currentVersion) == GreaterThan(currentVersion, <<5, 0, 0>>)

supportsRoles(currentVersion) == GreaterThan(currentVersion, <<8, 0, 0>>)

Query(sql) == [op |-> "query", sql |-> sql]
Exec(sql) == [op |-> "exec", sql |-> sql]

(***************************************************************************)
(* Inputs of the model.                                                    *)
(***************************************************************************)
MaxRows == 2    \* rows in one answer to SHOW GRANTS
MaxPerms == 2   \* tokens in one privilege list given to normalizePerms
MaxRowsAfter == 1   \* rows in an answer to the second SHOW GRANTS of CreateGrant

RowTableBob == <<"G","R","A","N","T"," ","S","E","L","E","C","T",","," ","I","N","S","E","R","T"," ","O","N"," ",Backtick,"a","p","p",Backtick,".",Backtick,"u","s","e","r","s",Backtick," ","T","O"," ","'","b","o","b","'","@","'","%","'">>
RowTableBobGrantOption == <<"G","R","A","N","T"," ","S","E","L","E","C","T"," ","O","N"," ",Backtick,"a","p","p",Backtick,".",Backtick,"u","s","e","r","s",Backtick," ","T","O"," ","'","b","o","b","'","@","'","%","'"," ","W","I","T","H"," ","G","R","A","N","T"," ","O","P","T","I","O","N">>
RowTableBobLocalhost == <<"G","R","A","N","T"," ","S","E","L","E","C","T"," ","O","N"," ",Backtick,"a","p","p",Backtick,".",Backtick,"u","s","e","r","s",Backtick," ","T","O"," ","'","b","o","b","'","@","'","l","o","c","a","l","h","o","s","t","'">>
RowRoutineBob == <<"G","R","A","N","T"," ","E","X","E","C","U","T","E"," ","O","N"," ","P","R","O","C","E","D","U","R","E"," ","p","r","o","c"," ","T","O"," ","'","b","o","b","'","@","'","%","'">>
RowRolesBob == <<"G","R","A","N","T"," ","e","d","i","t","o","r",","," ","v","i","e","w","e","r"," ","T","O"," ","'","b","o","b","'","@","'","%","'">>
RowRolesQuotedBob == <<"G","R","A","N","T"," ","'","e","d","i","t","o","r","'",","," ","'","v","i","e","w","e","r","'"," ","T","O"," ","'","b","o","b","'","@","'","%","'">>
RowTableDev == <<"G","R","A","N","T"," ","S","E","L","E","C","T"," ","O","N"," ",Backtick,"a","p","p",Backtick,".","*"," ","T","O"," ","'","d","e","v","'">>
RowRevokeBob == <<"R","E","V","O","K","E"," ","I","N","S","E","R","T"," ","O","N"," ",Backtick,"a","p","p",Backtick,".",Backtick,"u","s","e","r","s",Backtick," ","F","R","O","M"," ","'","b","o","b","'","@","'","%","'">>

RowUniverse ==
  {RowTableBob, RowTableBobGrantOption, RowTableBobLocalhost, RowRoutineBob,
   RowRolesBob, RowTableDev, RowRevokeBob, RowRolesQuotedBob}

RECURSIVE SeqsUpTo(_, _)
SeqsUpTo(S, n) ==
  IF n = 0 THEN {<<>>}
  ELSE LET shorter == SeqsUpTo(S, n - 1)
       IN shorter \cup {Append(q, x) : q \in {r \in shorter : Len(r) = n - 1}, x \in S}

\* what the server answers to SHOW GRANTS: rows, or an error
Answers ==
  {[err |-> ErrNil, rows |-> rows] : rows \in SeqsUpTo(RowUniverse, MaxRows)}
  \cup {[err |-> e, rows |-> <<>>] : e \in {MySQLError(1141), MySQLError(1045)}}

Versions == {<<5, 7, 30>>, <<8, 0, 21>>}

ExecErrors == {ErrNil, MySQLError(1141), MySQLError(1147), MySQLError(1403),
               MySQLError(1045), [t |-> "other"]}   \* the last: any other error value

\* a ResourceData of the grant resource; privileges and roles are the lists
\* Set.List gives of the two sets.  FreshData holds the defaults of the schema:
\* host "localhost", table "*", grant false, tls_option "NONE"
FreshData ==
  [id |-> <<>>, user |-> <<>>, host |-> <<"l","o","c","a","l","h","o","s","t">>, role |-> <<>>,
   database |-> <<>>, table |-> <<"*">>, privileges |-> <<>>, roles |-> <<>>,
   grant |-> FALSE, tls_option |-> <<"N","O","N","E">>]

\* resourceGrant().Data(nil): a ResourceData without state and without diff,
\* of which every field reads as the zero value of its type
DataNil ==
  [id |-> <<>>, user |-> <<>>, host |-> <<>>, role |-> <<>>,
   database |-> <<>>, table |-> <<>>, privileges |-> <<>>, roles |-> <<>>,
   grant |-> FALSE, tls_option |-> <<>>]

\* the privilege tokens of the declared grants
PrivSelect == <<"S","E","L","E","C","T">>
PrivInsert == <<"I","N","S","E","R","T">>
PrivUpdate == <<"U","P","D","A","T","E">>
PrivExecute == <<"E","X","E","C","U","T","E">>

Configs ==
  { \* the table grant of bob@%, without and with the grant option
    [FreshData EXCEPT !.user = <<"b","o","b">>, !.host = <<"%">>, !.database = <<"a","p","p">>,
                      !.table = <<"u","s","e","r","s">>,
                      !.privileges = SetList(<<PrivSelect, PrivInsert>>)],
    [FreshData EXCEPT !.user = <<"b","o","b">>, !.host = <<"%">>, !.database = <<"a","p","p">>,
                      !.table = <<"u","s","e","r","s">>,
                      !.privileges = SetList(<<PrivSelect, PrivUpdate>>)],
    [FreshData EXCEPT !.user = <<"b","o","b">>, !.host = <<"%">>, !.database = <<"a","p","p">>,
                      !.table = <<"u","s","e","r","s">>, !.privileges = <<PrivSelect>>,
                      !.grant = TRUE],
    \* two spellings of one privilege
    [FreshData EXCEPT !.user = <<"b","o","b">>, !.host = <<"%">>, !.database = <<"a","p","p">>,
                      !.privileges = SetList(<<<<"s","e","l","e","c","t">>, PrivSelect>>)],
    \* every privilege on every table, required over TLS
    [FreshData EXCEPT !.user = <<"b","o","b">>, !.host = <<"%">>, !.database = <<"*">>,
                      !.privileges = <<<<"a","l","l">>>>, !.tls_option = <<"S","S","L">>],
    \* a routine grant
    [FreshData EXCEPT !.user = <<"b","o","b">>, !.host = <<"%">>,
                      !.database = <<"P","R","O","C","E","D","U","R","E"," ","a","p","p",".","p","r","o","c">>,
                      !.privileges = <<PrivExecute>>],
    \* role-membership grants
    [FreshData EXCEPT !.user = <<"b","o","b">>, !.host = <<"%">>,
                      !.roles = SetList(<<<<"e","d","i","t","o","r">>, <<"v","i","e","w","e","r">>>>)],
    [FreshData EXCEPT !.user = <<"b","o","b">>, !.host = <<"%">>,
                      !.roles = <<<<"e","d","i","t","o","r">>>>, !.grant = TRUE],
    \* a table grant of the role dev
    [FreshData EXCEPT !.role = <<"d","e","v">>, !.database = <<"a","p","p">>,
                      !.privileges = <<PrivSelect>>],
    \* no identity: neither user nor role; a user with an empty host
    [FreshData EXCEPT !.database = <<"a","p","p">>, !.privileges = <<PrivSelect>>],
    [FreshData EXCEPT !.user = <<"b","o","b">>, !.host = <<>>, !.database = <<"a","p","p">>,
                      !.privileges = <<PrivSelect>>] }

\* the prior value of "privileges" that d.GetChange reports to UpdateGrant
OldPrivileges ==
  {SetList(privileges) :
     privileges \in {<<>>, <<PrivSelect>>, <<PrivSelect, PrivInsert>>,
                     <<PrivSelect, PrivUpdate>>, <<PrivExecute>>}}

\* the identifiers given to ImportGrant
ImportIds ==
  {<<"b","o","b","@","%","@","a","p","p","@","u","s","e","r","s">>, <<"b","o","b","@","%","@","a","p","p","@","u","s","e","r","s","@">>, <<"b","o","b","@","%","@",Backtick,"a","p","p",Backtick,"@",Backtick,"u","s","e","r","s",Backtick>>,
   <<"b","o","b","@","%","@",Backtick,"p","r","o","c",Backtick,"@">>, <<"b","o","b","@","%","@","@">>, <<"b","o","b","@","%","@","a","p","p">>}

Identities == {User(<<"b","o","b">>, <<"%">>), User(<<"b","o","b">>, <<"l","o","c","a","l","h","o","s","t">>), Role(<<"d","e","v">>)}

(***************************************************************************)
(* parseResourceFromData: the declared grant of a ResourceData, or the     *)
(* validation failure.  d.GetOk reports a string as set when it is not     *)
(* empty and a set as set when it has an element.                          *)
(***************************************************************************)
IdentityRequired == "One of user/host or role is required"

\* steps 3a to 3c of parseResourceFromData, on the identity and the
\* submatches of the two routine patterns
grantFromData(rd, userOrRole, withDb, withoutDb) ==
  IF rd.roles # <<>>
  THEN RoleGrant(rd.roles, rd.grant, userOrRole, rd.tls_option)
  ELSE IF withDb # <<>>
  THEN ProcedurePrivilegeGrant(withDb[3], withDb[2], withDb[4],
                               normalizePerms(rd.privileges), rd.grant, userOrRole,
                               rd.tls_option)
  ELSE IF withoutDb # <<>>
  THEN ProcedurePrivilegeGrant(withoutDb[3], withoutDb[2], rd.table,
                               normalizePerms(rd.privileges), rd.grant, userOrRole,
                               rd.tls_option)
  ELSE TablePrivilegeGrant(rd.database, rd.table, normalizePerms(rd.privileges),
                           rd.grant, userOrRole, rd.tls_option)

parseResourceFromData(rd) ==
  IF rd.user # <<>> /\ rd.host # <<>>
  THEN [grant |-> grantFromData(rd, User(rd.user, rd.host),
                     FindStringSubmatch(kReProcedureWithDatabase, rd.database),
                     FindStringSubmatch(kReProcedureWithoutDatabase, rd.database)),
        diagErr |-> ""]
  ELSE IF rd.role # <<>>
  THEN [grant |-> grantFromData(rd, Role(rd.role),
                     FindStringSubmatch(kReProcedureWithDatabase, rd.database),
                     FindStringSubmatch(kReProcedureWithoutDatabase, rd.database)),
        diagErr |-> ""]
  ELSE [grant |-> NilGrant, diagErr |-> IdentityRequired]

\* setDataFromGrant; d.Set stores a list of strings as the set of its elements
setDataFromGrant(grant, rd) ==
  LET u == grant.UserOrRole
      byKind ==
        CASE grant.kind = "table" ->
               [rd EXCEPT !.database = grant.Database, !.table = grant.Table,
                          !.grant = grant.Grant,
                          !.privileges = SetList(grant.Privileges),
                          !.tls_option = grant.TLSOption]
          [] grant.kind = "procedure" ->
               [rd EXCEPT !.database = grant.ObjectT \o <<" ">> \o grant.Database
                                       \o <<".">> \o grant.CallableName,
                          !.table = <<>>,
                          !.grant = grant.Grant,
                          !.privileges = SetList(grant.Privileges),
                          !.tls_option = grant.TLSOption]
          [] grant.kind = "role" ->
               [rd EXCEPT !.grant = grant.Grant, !.roles = SetList(grant.Roles),
                          !.tls_option = grant.TLSOption]
  IN IF u.t = "User" THEN [byKind EXCEPT !.user = u.User, !.host = u.Host]
     ELSE [byKind EXCEPT !.role = u.Role]

(***************************************************************************)
(* showUserGrants: the grants of an identity the server lists.             *)
(***************************************************************************)
\* the rows of the model and the statements of its declared grants, parsed once
DeclaredGrants ==
  {parseResourceFromData(c).grant : c \in Configs} \ {NilGrant}

KnownRows == RowUniverse \cup {SQLGrantStatement(g) : g \in DeclaredGrants}

ParsedRows == [row \in KnownRows |-> parseGrantFromRow(row)]

ParseRow(row) == IF row \in DOMAIN ParsedRows THEN ParsedRows[row] ELSE parseGrantFromRow(row)

\* the loop over rows.Next(), from row i on; keepRow is the body of the loop
\* on the parsed row i
RECURSIVE showLoop(_, _, _, _)
RECURSIVE keepRow(_, _, _, _, _)
\* a variant of the body of the loop that keeps the grants of every identity
keepRowUnfiltered(rows, i, userOrRole, grants, parsed) ==
  IF parsed.err # "" THEN [grants |-> <<>>, err |-> parsed.err]
  ELSE IF parsed.grant = NilGrant
  THEN showLoop(rows, i + 1, userOrRole, grants)
  ELSE showLoop(rows, i + 1, userOrRole, Append(grants, parsed.grant))

showLoop(rows, i, userOrRole, grants) ==
  IF i > Len(rows) THEN [grants |-> grants, err |-> ""]
  ELSE keepRow(rows, i, userOrRole, grants, ParseRow(rows[i]))

keepRow(rows, i, userOrRole, grants, parsed) ==
  IF parsed.err # "" THEN [grants |-> <<>>, err |-> parsed.err]
  ELSE IF parsed.grant = NilGrant
  THEN showLoop(rows, i + 1, userOrRole, grants)
  ELSE IF SQLString(parsed.grant.UserOrRole) # SQLString(userOrRole)
  THEN showLoop(rows, i + 1, userOrRole, grants)
  ELSE showLoop(rows, i + 1, userOrRole, Append(grants, parsed.grant))

GettingAllFailed == "showGrant - getting all grants failed"

\* what showUserGrants returns, with the query it has sent
Shown(listed, sqlStatement) ==
  [grants |-> listed.grants, err |-> listed.err, calls |-> <<Query(sqlStatement)>>]

showUserGrants(answer, userOrRole) ==
  Shown(IF isNonExistingGrant(answer.err) THEN [grants |-> <<>>, err |-> ""]
        ELSE IF answer.err # ErrNil
        THEN [grants |-> <<>>, err |-> "showUserGrants - getting grants failed"]
        ELSE showLoop(answer.rows, 1, userOrRole, <<>>),
        <<"S","H","O","W"," ","G","R","A","N","T","S"," ","F","O","R"," ">> \o SQLString(userOrRole))

\* a variant of the comparison that looks at the kind alone
HasSameKind(desiredGrant, allGrants) ==
  \E i \in 1..Len(allGrants) : desiredGrant.kind = allGrants[i].kind

\* the loop of hasConflictingGrants
HasSameKindAndFlag(desiredGrant, allGrants) ==
  \E i \in 1..Len(allGrants) :
     /\ desiredGrant.Grant = allGrants[i].Grant
     /\ desiredGrant.kind = allGrants[i].kind

\* hasConflictingGrants on what showUserGrants returned
conflictsIn(shown, desiredGrant) ==
  [conflict |-> shown.err = "" /\ HasSameKindAndFlag(desiredGrant, shown.grants),
   err |-> (IF shown.err # "" THEN GettingAllFailed ELSE ""), calls |-> shown.calls]

hasConflictingGrants(answer, desiredGrant) ==
  conflictsIn(showUserGrants(answer, desiredGrant.UserOrRole), desiredGrant)

(***************************************************************************)
(* The handlers.  Each returns the ResourceData it leaves, the statements  *)
(* it sent to the database in order, and what it returned: "ok", an error  *)
(* with its message, or "panic" for a nil dereference; None stands for a   *)
(* handler that has not returned.                                          *)
(* getDatabaseFromMeta is taken to succeed, so its err is nil.             *)
(***************************************************************************)
None == [none |-> TRUE]

Ok == [status |-> "ok", msg |-> ""]
Error(msg) == [status |-> "error", msg |-> msg]
Panic == [status |-> "panic", msg |-> "nil pointer dereference"]

Outcome(rd, sent, returned) == [d |-> rd, calls |-> sent, ret |-> returned]

RolesUnsupported == "role grants are not supported by this version of MySQL"
Unmanaged == "already has unmanaged grant - import it first"
UpdatingFailed == "failed updating privileges"
NoPartialRevoke == "grant does not support partial privilege revokes"
RevokingFailed == "error revoking ALL"

\* a variant of ReadGrant that stores the first live grant of the identity
readShownFromLive(rd, grant, shown) ==
  IF shown.err # "" THEN Outcome(rd, shown.calls, Error(GettingAllFailed))
  ELSE IF Len(shown.grants) = 0 THEN Outcome([rd EXCEPT !.id = <<>>], shown.calls, Ok)
  ELSE Outcome(setDataFromGrant(shown.grants[1], rd), shown.calls, Ok)

\* ReadGrant once the grants are retrieved
readShown(rd, grant, shown) ==
  IF shown.err # "" THEN Outcome(rd, shown.calls, Error(GettingAllFailed))
  ELSE IF Len(shown.grants) = 0 THEN Outcome([rd EXCEPT !.id = <<>>], shown.calls, Ok)
  ELSE Outcome(setDataFromGrant(grant, rd), shown.calls, Ok)

\* ReadGrant once the ResourceData is parsed
readParsed(rd, answer, parsed) ==
  IF parsed.diagErr # "" THEN Outcome(rd, <<>>, Error(parsed.diagErr))
  ELSE readShown(rd, parsed.grant, showUserGrants(answer, parsed.grant.UserOrRole))

ReadGrant(rd, answer) == readParsed(rd, answer, parseResourceFromData(rd))

\* CreateGrant once ReadGrant has returned
createRead(sent, read) == Outcome(read.d, sent \o read.calls, read.ret)

\* the ReadGrant of line 451, answered by after, when CreateGrant has come so
\* far with the outcome o
createReadGrant(o, after) ==
  IF o.ret # None THEN o ELSE createRead(o.calls, ReadGrant(o.d, after))

\* the GRANT of lines 443 to 448 and the d.SetId of line 450, when CreateGrant
\* has come so far with the outcome o
createExecuted(o, grant, execErr) ==
  IF o.ret # None THEN o
  ELSE IF execErr # ErrNil
  THEN Outcome(o.d, o.calls \o <<Exec(SQLGrantStatement(grant))>>,
               Error("Error running SQL"))
  ELSE Outcome([o.d EXCEPT !.id = GetId(grant)],
               o.calls \o <<Exec(SQLGrantStatement(grant))>>, None)

\* CreateGrant once the conflicts are known: it returns, or goes on to its GRANT
createChecked(rd, conflicts) ==
  IF conflicts.err # "" THEN Outcome(rd, conflicts.calls, Error("failed showing grants"))
  ELSE IF conflicts.conflict THEN Outcome(rd, conflicts.calls, Error(Unmanaged))
  ELSE Outcome(rd, conflicts.calls, None)

\* CreateGrant once the ResourceData is parsed; err is the error of
\* getDatabaseFromMeta, which the handler tests in place of diagErr
createParsed(rd, answer, currentVersion, err, parsed) ==
  IF err # ErrNil THEN Outcome(rd, <<>>, Error(parsed.diagErr))
  ELSE IF parsed.grant.kind = "role" /\ ~supportsRoles(currentVersion)
  THEN Outcome(rd, <<>>, Error(RolesUnsupported))
  ELSE IF parsed.grant = NilGrant THEN Outcome(rd, <<>>, Panic)
  ELSE createChecked(rd, hasConflictingGrants(answer, parsed.grant))

\* CreateGrant from its start to line 441: answer is what SHOW GRANTS returns
\* to hasConflictingGrants
createShown(rd, answer, currentVersion) ==
  createParsed(rd, answer, currentVersion, ErrNil, parseResourceFromData(rd))

\* answer: what SHOW GRANTS returns before the GRANT; execErr: the error of
\* the GRANT; after: what SHOW GRANTS returns once the GRANT has run
CreateGrant(rd, answer, after, currentVersion, execErr) ==
  createReadGrant(createExecuted(createShown(rd, answer, currentVersion),
                                 parseResourceFromData(rd).grant, execErr),
                  after)

\* the elements of list that are not in other, in the order of list
Difference(list, other) ==
  SelectSeq(list, LAMBDA x : \A i \in 1..Len(other) : other[i] # x)

\* the result is the error returned ("" for nil) and the statements sent
Updated(err, sent) == [err |-> err, calls |-> sent]

\* the full grant of updatePrivileges, after the statements sent
grantAdded(grantIfs, sent, regrant, grantErr) ==
  IF Len(grantIfs) > 0
  THEN Updated(IF grantErr # ErrNil THEN "exec" ELSE "", sent \o <<Exec(regrant)>>)
  ELSE Updated("", sent)

\* the partial revoke of updatePrivileges, then the full grant
revokeRemoved(grant, grantIfs, revokeIfs, regrant, revokeErr, grantErr) ==
  IF Len(revokeIfs) > 0
  THEN IF ~IsPartiallyRevocable(grant) THEN Updated(NoPartialRevoke, <<>>)
       ELSE IF revokeErr # ErrNil
       THEN Updated("exec", <<Exec(SQLPartialRevokePrivilegesStatement(grant, revokeIfs))>>)
       ELSE grantAdded(grantIfs,
                       <<Exec(SQLPartialRevokePrivilegesStatement(grant, revokeIfs))>>,
                       regrant, grantErr)
  ELSE grantAdded(grantIfs, <<>>, regrant, grantErr)

\* a variant of updatePrivileges that grants the added privileges alone
updatePrivilegesAddedOnly(grant, oldPrivs, newPrivs, revokeErr, grantErr) ==
  revokeRemoved(grant, Difference(newPrivs, oldPrivs), Difference(oldPrivs, newPrivs),
                SQLGrantStatement([grant EXCEPT
                                     !.Privileges = Difference(newPrivs, oldPrivs)]),
                revokeErr, grantErr)

updatePrivileges(grant, oldPrivs, newPrivs, revokeErr, grantErr) ==
  revokeRemoved(grant, Difference(newPrivs, oldPrivs), Difference(oldPrivs, newPrivs),
                SQLGrantStatement(grant), revokeErr, grantErr)

Range(list) == {list[i] : i \in 1..Len(list)}

\* UpdateGrant once updatePrivileges has returned
updateDone(rd, updated) ==
  IF updated.err # "" THEN Outcome(rd, updated.calls, Error(UpdatingFailed))
  ELSE Outcome(rd, updated.calls, Ok)

\* UpdateGrant once the ResourceData is parsed
updateParsed(rd, oldPrivs, revokeErr, grantErr, parsed) ==
  IF parsed.diagErr # "" THEN Outcome(rd, <<>>, Error(parsed.diagErr))
  ELSE updateDone(rd, updatePrivileges(parsed.grant, oldPrivs, rd.privileges,
                                       revokeErr, grantErr))

\* oldPrivs: the prior value of "privileges", rd.privileges the new one
UpdateGrant(rd, oldPrivs, revokeErr, grantErr) ==
  IF Range(oldPrivs) = Range(rd.privileges) THEN Outcome(rd, <<>>, Ok)
  ELSE updateParsed(rd, oldPrivs, revokeErr, grantErr, parseResourceFromData(rd))

\* DeleteGrant once the ResourceData is parsed; err is the error of
\* getDatabaseFromMeta, which the handler tests in place of diagErr
deleteParsed(rd, execErr, err, parsed) ==
  IF err # ErrNil THEN Outcome(rd, <<>>, Error(parsed.diagErr))
  ELSE IF parsed.grant = NilGrant THEN Outcome(rd, <<>>, Panic)
  ELSE IF execErr # ErrNil /\ ~isNonExistingGrant(execErr)
  THEN Outcome(rd, <<Exec(SQLRevokeStatement(parsed.grant))>>, Error(RevokingFailed))
  ELSE Outcome(rd, <<Exec(SQLRevokeStatement(parsed.grant))>>, Ok)

DeleteGrant(rd, execErr) == deleteParsed(rd, execErr, ErrNil, parseResourceFromData(rd))

\* the test of the loop of ImportGrant on one grant
ImportMatches(grant, database, table, grantOption) ==
  /\ grant.Grant = grantOption
  \* MySQLGrantWithDatabase: the table and the routine grant
  /\ ~(\/ grant.kind \notin {"table", "procedure"} /\ database # <<>>
       \/ grant.kind \in {"table", "procedure"} /\ GetDatabase(grant) # database)
  \* MySQLGrantWithTable: the table grant
  /\ ~(\/ grant.kind # "table" /\ table # <<>>
       \/ grant.kind = "table" /\ GetTable(grant) # table)

Imported(results, sent, returned) == [results |-> results, calls |-> sent, ret |-> returned]

\* the loop of ImportGrant from grant i on
RECURSIVE importLoop(_, _, _, _, _)
importLoop(shown, i, database, table, grantOption) ==
  IF i > Len(shown.grants) THEN Imported(<<>>, shown.calls, Ok)
  ELSE IF ImportMatches(shown.grants[i], database, table, grantOption)
  THEN Imported(<<setDataFromGrant(shown.grants[i], DataNil)>>, shown.calls, Ok)
  ELSE importLoop(shown, i + 1, database, table, grantOption)

\* ImportGrant once the grants are retrieved
importShown(shown, database, table, grantOption) ==
  IF shown.err # "" THEN Imported(<<>>, shown.calls, Error(shown.err))
  ELSE importLoop(shown, 1, database, table, grantOption)

\* ImportGrant on the segments of the identifier
importSplit(userHostDatabaseTable, answer) ==
  IF Len(userHostDatabaseTable) # 4 /\ Len(userHostDatabaseTable) # 5
  THEN Imported(<<>>, <<>>, Error("wrong ID format"))
  ELSE importShown(showUserGrants(answer, User(userHostDatabaseTable[1],
                                                userHostDatabaseTable[2])),
                   userHostDatabaseTable[3], userHostDatabaseTable[4],
                   Len(userHostDatabaseTable) = 5)

\* the result is the list of ResourceData returned, the error and the statements
ImportGrant(id, answer) == importSplit(Split(id, "@"), answer)

(***************************************************************************)
(* The resource over time.  d is the ResourceData the framework keeps for  *)
(* the resource and hands to the handlers.  The framework calls one        *)
(* handler at a time (op).  A handler runs from one exchange with the      *)
(* database to the next: pc is "done" when it has returned, and else the   *)
(* line of the statement it sends next.  inp keeps what the call has been  *)
(* given so far (what the server answers to SHOW GRANTS and to the         *)
(* statements, the server version), calls what the handler has sent to the *)
(* database, ret what it returned and out the values it produced.          *)
(***************************************************************************)
Idle == op = "idle"

LifeInit ==
  /\ d = FreshData
  /\ op = "idle"
  /\ pc = "idle"
  /\ inp = None
  /\ calls = <<>>
  /\ ret = None
  /\ out = None

\* the handler named name, given input, has come to the outcome o: it has
\* returned, or it goes on at the line next
Called(name, input, o, next) ==
  /\ op' = name
  /\ pc' = (IF o.ret = None THEN next ELSE "done")
  /\ inp' = input
  /\ d' = o.d
  /\ calls' = o.calls
  /\ ret' = o.ret
  /\ out' = None

\* the operator declares a resource
Plan ==
  /\ Idle
  /\ \E c \in Configs : d' = c
  /\ UNCHANGED <<op, pc, inp, calls, ret, out>>

\* what SHOW GRANTS may return to the ReadGrant that ends CreateGrant, once
\* the GRANT has run: what it returned before, with or without the new grant
\* as a row of its own, or, the grants having changed in between, any answer
\* of at most MaxRowsAfter rows
AnswersAfterGrant(answer, stmtSQL) ==
  {answer}
  \cup {[a EXCEPT !.rows = Append(a.rows, stmtSQL)] : a \in {b \in {answer} : b.err = ErrNil}}
  \cup {a \in Answers : Len(a.rows) <= MaxRowsAfter}
  \cup {[err |-> ErrNil, rows |-> <<stmtSQL>>]}

\* the framework creates a resource that has no identifier yet: CreateGrant
\* runs to its return or to the GRANT of line 445.  In inp, execErr is nil
\* until the GRANT is answered and after is the first answer until SHOW
\* GRANTS is answered again
Create ==
  /\ Idle
  /\ d.id = <<>>
  /\ d # FreshData
  /\ \E answer \in Answers, version \in Versions :
       Called("CreateGrant",
              [d |-> d, answer |-> answer, after |-> answer, version |-> version,
               execErr |-> ErrNil],
              createShown(d, answer, version), "445")

\* the GRANT is executed: CreateGrant returns its error, or sets the
\* identifier and goes on to the ReadGrant of line 451
CreateAt445 ==
  /\ op = "CreateGrant"
  /\ pc = "445"
  /\ \E execErr \in {ErrNil, MySQLError(1045)} :
       Called("CreateGrant", [inp EXCEPT !.execErr = execErr],
              createExecuted(Outcome(d, calls, None), parseResourceFromData(inp.d).grant,
                             execErr),
              "451")

\* ReadGrant asks for the grants again, and CreateGrant returns what it returns
CreateAt451 ==
  /\ op = "CreateGrant"
  /\ pc = "451"
  /\ \E after \in AnswersAfterGrant(inp.answer,
                     SQLGrantStatement(parseResourceFromData(inp.d).grant)) :
       Called("CreateGrant", [inp EXCEPT !.after = after],
              createReadGrant(Outcome(d, calls, None), after), "done")

Read ==
  /\ Idle
  /\ d # FreshData
  /\ \E answer \in Answers :
       Called("ReadGrant", [d |-> d, answer |-> answer], ReadGrant(d, answer), "done")

\* UpdateGrant has come to the outcome o of its statements: when these are the
\* REVOKE and the GRANT, it has executed the REVOKE and goes on to the GRANT of
\* line 537, whose error is not given yet
updateRevoked(input, o) ==
  IF Len(o.calls) = 2
  THEN Called("UpdateGrant", [input EXCEPT !.grantErr = ErrNil],
              Outcome(o.d, <<o.calls[1]>>, None), "537")
  ELSE Called("UpdateGrant", input, o, "done")

\* UpdateGrant runs to its return or, the REVOKE executed, to the GRANT
Update ==
  /\ Idle
  /\ d # FreshData
  /\ \E oldPrivs \in OldPrivileges, revokeErr, grantErr \in {ErrNil, MySQLError(1045)} :
       updateRevoked([d |-> d, oldPrivs |-> oldPrivs, revokeErr |-> revokeErr,
                      grantErr |-> grantErr],
                     UpdateGrant(d, oldPrivs, revokeErr, grantErr))

\* the GRANT that follows the REVOKE is executed, and UpdateGrant returns
UpdateAt537 ==
  /\ op = "UpdateGrant"
  /\ pc = "537"
  /\ \E grantErr \in {ErrNil, MySQLError(1045)} :
       Called("UpdateGrant", [inp EXCEPT !.grantErr = grantErr],
              UpdateGrant(inp.d, inp.oldPrivs, inp.revokeErr, grantErr), "done")

Delete ==
  /\ Idle
  /\ d # FreshData
  /\ \E execErr \in ExecErrors :
       Called("DeleteGrant", [d |-> d, execErr |-> execErr], DeleteGrant(d, execErr),
              "done")

\* ImportGrant has returned o
Imports(input, o) ==
  /\ op' = "ImportGrant"
  /\ pc' = "done"
  /\ inp' = input
  /\ calls' = o.calls
  /\ ret' = o.ret
  /\ out' = o.results
  /\ UNCHANGED d

\* the framework imports into a ResourceData that holds the identifier alone
Import ==
  /\ Idle
  /\ d = FreshData
  /\ \E id \in ImportIds, answer \in Answers :
       Imports([id |-> id, answer |-> answer], ImportGrant(id, answer))

\* showUserGrants has returned o
Shows(input, o) ==
  /\ op' = "showUserGrants"
  /\ pc' = "done"
  /\ inp' = input
  /\ calls' = o.calls
  /\ ret' = (IF o.err = "" THEN Ok ELSE Error(o.err))
  /\ out' = o.grants
  /\ UNCHANGED d

\* one call of showUserGrants, as the handlers make it
ShowGrants ==
  /\ Idle
  /\ d = FreshData
  /\ \E userOrRole \in Identities, answer \in Answers :
       Shows([userOrRole |-> userOrRole, answer |-> answer],
             showUserGrants(answer, userOrRole))

\* the handler has returned to the framework
Return ==
  /\ pc = "done"
  /\ op' = "idle"
  /\ pc' = "idle"
  /\ inp' = None
  /\ calls' = <<>>
  /\ ret' = None
  /\ out' = None
  /\ UNCHANGED d

(***************************************************************************)
(* Rendering and parsing on their own: a grant is rendered to its GRANT    *)
(* statement and the statement is parsed, or a row of the server is parsed *)
(* as it stands.                                                           *)
(***************************************************************************)
\* the non-empty sequences over S of at most n elements
NonEmptySeqsUpTo(S, n) == SeqsUpTo(S, n) \ {<<>>}

Logins == {User(<<"b","o","b">>, <<"%">>), User(<<"a","l","i","c","e">>, <<"l","o","c","a","l","h","o","s","t">>)}

\* table grants of a login, without grant option and TLS requirement, on a
\* plain database and table name, with canonical privileges
PlainTableGrants ==
  {TablePrivilegeGrant(database, table, privileges, FALSE, login, <<>>) :
     database \in {<<"a","p","p">>, <<"s","h","o","p">>},
     table \in {<<"u","s","e","r","s">>, <<"t","1">>},
     privileges \in NonEmptySeqsUpTo({PrivSelect, PrivInsert, PrivUpdate}, MaxPerms),
     login \in Logins}

RoleNames == {<<"e","d","i","t","o","r">>, <<"v","i","e","w","e","r">>, <<"a","d","m","i","n">>}

\* GRANT '<role1>', '<role2>' TO '<name>'@'<host>'
RoleMembershipRow(role1, role2, login) ==
  <<"G","R","A","N","T"," ","'">> \o role1 \o <<"'",","," ","'">> \o role2 \o <<"'"," ","T","O"," ">> \o SQLString(login)

RoleMembershipRows ==
  {RoleMembershipRow(role1, role2, login) :
     role1 \in RoleNames, role2 \in RoleNames, login \in Logins}

RoutineKinds == {<<"P","R","O","C","E","D","U","R","E">>, <<"F","U","N","C","T","I","O","N">>}

RoutineNames == {<<"p","r","o","c">>, <<"c","a","l","c","_","t","o","t","a","l">>}

RoutinePrivileges == {<<<<"E","X","E","C","U","T","E">>>>, <<<<"E","X","E","C","U","T","E">>, <<"A","L","T","E","R"," ","R","O","U","T","I","N","E">>>>}

\* GRANT <privileges> ON <kind> <name> TO '<name>'@'<host>'
RoutineRow(privileges, kind, name, login) ==
  <<"G","R","A","N","T"," ">> \o Join(privileges, <<","," ">>) \o <<" ","O","N"," ">> \o kind \o <<" ">> \o name
    \o <<" ","T","O"," ">> \o SQLString(login)

RoutineRows ==
  {RoutineRow(privileges, kind, name, login) :
     privileges \in RoutinePrivileges, kind \in RoutineKinds, name \in RoutineNames,
     login \in Logins}

ParseInit ==
  /\ psOut = None
  /\ \/ psIn \in PlainTableGrants /\ psRow = None /\ psPc = "grant"
     \/ /\ psIn = None
        /\ psRow \in RowUniverse \cup RoleMembershipRows \cup RoutineRows
        /\ psPc = "row"

Render ==
  /\ psPc = "grant"
  /\ psRow' = SQLGrantStatement(psIn)
  /\ psPc' = "row"
  /\ UNCHANGED <<psIn, psOut>>

Parse ==
  /\ psPc = "row"
  /\ psOut' = parseGrantFromRow(psRow)
  /\ psPc' = "parsed"
  /\ UNCHANGED <<psIn, psRow>>

(***************************************************************************)
(* The canonicalizer on its own: a privilege list is canonicalized, the    *)
(* result canonicalized again, and the list canonicalized with its tokens  *)
(* or the columns of its token in another order.                           *)
(***************************************************************************)
\* name(column,column,...) as a user writes it
ColumnToken(name, columns) == name \o <<"(">> \o Join(columns, <<",">>) \o <<")">>

\* the sequences that hold the elements of s in any order
Reorderings(s) ==
  {[i \in 1..Len(s) |-> s[f[i]]] :
     f \in {g \in [1..Len(s) -> 1..Len(s)] :
              \A i, j \in 1..Len(s) : i # j => g[i] # g[j]}}

ColumnLists ==
  Reorderings(<<<<"b">>, <<"a">>, <<"c">>>>) \cup Reorderings(<<<<"b">>, <<" ",Backtick,"a",Backtick>>>>)

ColumnedNames == {<<"s","e","l","e","c","t">>}

ColumnTokens == {ColumnToken(name, columns) : name \in ColumnedNames, columns \in ColumnLists}

PlainTokens ==
  {<<"s","e","l","e","c","t">>, <<"S","E","L","E","C","T">>, <<"I","n","s","e","r","t">>, <<"a","l","l">>, <<"A","L","L"," ","P","R","I","V","I","L","E","G","E","S">>, <<" ","u","s","a","g","e">>,
   <<"U","S","A","G","E">>}

TokenUniverse == PlainTokens \cup ColumnTokens

NormInit ==
  /\ npA \in SeqsUpTo(TokenUniverse, MaxPerms)
  /\ npB = None
  /\ npOutA = None
  /\ npOutB = None
  /\ npOutAA = None
  /\ npPc = "start"

NormalizeOnce ==
  /\ npPc = "start"
  /\ npOutA' = normalizePerms(npA)
  /\ npPc' = "once"
  /\ UNCHANGED <<npA, npB, npOutB, npOutAA>>

NormalizeTwice ==
  /\ npPc = "once"
  /\ npOutAA' = normalizePerms(npOutA)
  /\ npPc' = "twice"
  /\ UNCHANGED <<npA, npB, npOutA, npOutB>>

\* the same tokens in another order
NormalizeReordered ==
  /\ npPc = "once"
  /\ \E other \in Reorderings(npA) \ {npA} :
        /\ npB' = other
        /\ npOutB' = normalizePerms(other)
  /\ npPc' = "reordered"
  /\ UNCHANGED <<npA, npOutA, npOutAA>>

\* one token with the same columns in another order
NormalizeColumnsReordered ==
  /\ npPc = "once"
  /\ \E name \in ColumnedNames, columns \in ColumnLists :
        /\ npA = <<ColumnToken(name, columns)>>
        /\ \E other \in Reorderings(columns) :
              /\ npB' = <<ColumnToken(name, other)>>
              /\ npOutB' = normalizePerms(<<ColumnToken(name, other)>>)
  /\ npPc' = "columns"
  /\ UNCHANGED <<npA, npOutA, npOutAA>>

(***************************************************************************)
(* Specifications.                                                         *)
(***************************************************************************)
ParseIdle == psIn = None /\ psRow = None /\ psOut = None /\ psPc = "off"

NormIdle ==
  /\ npA = None /\ npB = None /\ npOutA = None /\ npOutB = None /\ npOutAA = None
  /\ npPc = "off"

Init == LifeInit /\ ParseIdle /\ NormIdle

Next ==
  /\ \/ Plan
     \/ Create
     \/ CreateAt445
     \/ CreateAt451
     \/ Read
     \/ Update
     \/ UpdateAt537
     \/ Delete
     \/ Import
     \/ ShowGrants
     \/ Return
  /\ UNCHANGED <<parseVars, normVars>>

\* the handlers called on a resource
Spec == Init /\ [][Next]_vars

InitParse == LifeInit /\ ParseInit /\ NormIdle

NextParse == (Render \/ Parse) /\ UNCHANGED <<lifeVars, normVars>>

\* rendering and parsing
SpecParse == InitParse /\ [][NextParse]_vars

InitNorm == LifeInit /\ ParseIdle /\ NormInit

NextNorm ==
  /\ \/ NormalizeOnce
     \/ NormalizeTwice
     \/ NormalizeReordered
     \/ NormalizeColumnsReordered
  /\ UNCHANGED <<lifeVars, parseVars>>

\* the canonicalizer
SpecNorm == InitNorm /\ [][NextNorm]_vars

(***************************************************************************)
(* Vocabulary of the properties.                                           *)
(***************************************************************************)
\* the handler named name has returned
Returned(name) == op = name /\ pc = "done"

\* the declared configuration names a login (user and host) or a role
HasIdentity(rd) == (rd.user # <<>> /\ rd.host # <<>>) \/ rd.role # <<>>

DeclaredGrant(rd) == parseResourceFromData(rd).grant

NonexistentGrantErrors == {MySQLError(1141), MySQLError(1147), MySQLError(1403)}

ExecAt(sent) == {i \in 1..Len(sent) : sent[i].op = "exec"}
GrantAt(sent) == {i \in ExecAt(sent) : HasPrefix(sent[i].sql, <<"G","R","A","N","T"," ">>)}
RevokeAt(sent) == {i \in ExecAt(sent) : HasPrefix(sent[i].sql, <<"R","E","V","O","K","E"," ">>)}

ShowGrantsFor(userOrRole) == Query(<<"S","H","O","W"," ","G","R","A","N","T","S"," ","F","O","R"," ">> \o SQLString(userOrRole))

\* the rows of the model that are no REVOKE rows and in which no identity or
\* none of the three statement patterns is found
PatternlessRows ==
  {row \in KnownRows :
     /\ ~HasPrefix(row, <<"R","E","V","O","K","E">>)
     /\ \/ FindStringSubmatch(userHostRegex, row) = <<>>
        \/ /\ FindStringSubmatch(roleGrantRegex, row) = <<>>
           /\ FindStringSubmatch(procedureGrantRegex, row) = <<>>
           /\ FindStringSubmatch(tableGrantRegex, row) = <<>>}

RevokeRows == {row \in KnownRows : HasPrefix(row, <<"R","E","V","O","K","E">>)}

\* the grants parsed from the rows that are no REVOKE rows, match a pattern
\* and name the identity, in row order
LiveGrants(answer, userOrRole) ==
  LET kept == SelectSeq(answer.rows,
                LAMBDA row : /\ row \notin RevokeRows
                             /\ row \notin PatternlessRows
                             /\ SQLString(ParseRow(row).grant.UserOrRole)
                                  = SQLString(userOrRole))
  IN IF answer.err # ErrNil THEN <<>>
     ELSE [i \in 1..Len(kept) |-> ParseRow(kept[i]).grant]

HasPatternlessRow(answer) ==
  answer.err = ErrNil /\ \E i \in 1..Len(answer.rows) : answer.rows[i] \in PatternlessRows

\* the retrieval of the live grants ends without error
Retrieved(answer) ==
  \/ answer.err \in NonexistentGrantErrors
  \/ answer.err = ErrNil /\ ~HasPatternlessRow(answer)

\* some live grant has the flag and the kind of the desired grant
SameShapeListed(desired, live) ==
  \E i \in 1..Len(live) : live[i].Grant = desired.Grant /\ live[i].kind = desired.kind

\* the sequences that list the elements of a set once each
ListingsOf(S) ==
  {f \in [1..Cardinality(S) -> S] :
     \A i, j \in 1..Cardinality(S) : i # j => f[i] # f[j]}

Ascending(list) == \A i, j \in 1..Len(list) : i < j => ~StrLess(list[j], list[i])

(***************************************************************************)
(* Properties.                                                             *)
(***************************************************************************)
BobTableGrant ==
  TablePrivilegeGrant(<<"a","p","p">>, <<"u","s","e","r","s">>, <<PrivSelect, PrivInsert>>, FALSE,
                      User(<<"b","o","b">>, <<"%">>), <<>>)

\* C1: round trip of a table grant.  For every table grant G of a login,
\* without grant option and TLS requirement, on a plain database and table
\* name and with a non-empty canonical privilege list, parsing the GRANT
\* statement of G returns, without error, a grant equal to G.
C1_RoundTrip ==
  (psPc = "parsed" /\ psIn # None) => psOut = [grant |-> psIn, err |-> ""]

\* the statement of the grant on app.users of bob@% is parsed into a table
\* grant on another database and table
C1_Diverges ==
  /\ psPc = "parsed"
  /\ psIn = BobTableGrant
  /\ psOut.err = ""
  /\ psOut.grant.kind = "table"
  /\ psOut.grant.Database = <<"a","p","p",Backtick,".",Backtick,"u","s","e","r","s">>
  /\ psOut.grant.Table = <<"'","b","o","b","'","@","'","%","'">>

\* C2 as stated: for every desired grant and every listing CreateGrant
\* returns the unmanaged-grant error and executes no GRANT iff the live grants
\* of the identity hold a grant of the same flag and kind; otherwise exactly
\* one GRANT is executed, after the show-grants query.
C2_ConflictGuardAlways ==
  (Returned("CreateGrant") /\ HasIdentity(inp.d)) =>
    LET desired == DeclaredGrant(inp.d)
        live == LiveGrants(inp.answer, desired.UserOrRole)
        conflict == SameShapeListed(desired, live)
    IN /\ (ret = Error(Unmanaged) /\ GrantAt(calls) = {}) <=> conflict
       /\ ~conflict =>
            /\ Cardinality(GrantAt(calls)) = 1
            /\ calls[1] = ShowGrantsFor(desired.UserOrRole)
            /\ GrantAt(calls) = {2}

\* C2: conflict guard on create.  When the desired grant passes the check of
\* role support and the live grants of its identity are retrieved without
\* error, CreateGrant returns the unmanaged-grant error and executes no GRANT
\* iff the live grants hold a grant of the same flag and kind, whatever their
\* database and table; when there is none, exactly one GRANT is executed, the
\* statement of the desired grant, right after the show-grants query.
C2_ConflictGuard ==
  (Returned("CreateGrant") /\ HasIdentity(inp.d)) =>
    LET desired == DeclaredGrant(inp.d)
        supported == desired.kind # "role" \/ supportsRoles(inp.version)
        live == LiveGrants(inp.answer, desired.UserOrRole)
        conflict == SameShapeListed(desired, live)
    IN (supported /\ Retrieved(inp.answer)) =>
         /\ (ret = Error(Unmanaged) /\ GrantAt(calls) = {}) <=> conflict
         /\ conflict => calls = <<ShowGrantsFor(desired.UserOrRole)>>
         /\ ~conflict =>
              /\ Cardinality(GrantAt(calls)) = 1
              /\ calls[1] = ShowGrantsFor(desired.UserOrRole)
              /\ calls[2] = Exec(SQLGrantStatement(desired))

\* a create that is refused for a live grant on another table
C2_Refused ==
  /\ Returned("CreateGrant")
  /\ inp.d.user = <<"b","o","b">> /\ inp.d.database = <<"*">>
  /\ inp.answer.err = ErrNil
  /\ inp.answer.rows = <<RowTableBobLocalhost, RowTableBob>>
  /\ ret = Error(Unmanaged)
  /\ Len(calls) = 1

\* C3: privilege diff on update.  For a table or routine grant, with removed
\* = old - new and added = new - old, a partial revoke naming exactly the
\* removed privileges is executed iff removed is not empty; a grant carrying
\* the complete new privilege list is executed iff added is not empty and the
\* revoke has not failed; the revoke comes before the grant; nothing is
\* executed when both differences are empty.
C3_PrivilegeDiff ==
  (/\ Returned("UpdateGrant")
   /\ HasIdentity(inp.d)
   /\ DeclaredGrant(inp.d).kind \in {"table", "procedure"}) =>
    LET g == DeclaredGrant(inp.d)
        old == Range(inp.oldPrivs)
        new == Range(inp.d.privileges)
        removed == old \ new
        added == new \ old
        revokeFailed == removed # {} /\ inp.revokeErr # ErrNil
    IN /\ ExecAt(calls) = 1..Len(calls)
       /\ RevokeAt(calls) \cup GrantAt(calls) = 1..Len(calls)
       /\ Cardinality(RevokeAt(calls)) <= 1
       /\ Cardinality(GrantAt(calls)) <= 1
       /\ RevokeAt(calls) # {} <=> removed # {}
       /\ \A i \in RevokeAt(calls) :
            \E listing \in ListingsOf(removed) :
               calls[i].sql = <<"R","E","V","O","K","E"," ">> \o Join(listing, <<","," ">>) \o <<" ","O","N"," ">>
                                \o ObjectRef(g) \o <<" ","F","R","O","M"," ">> \o SQLString(g.UserOrRole)
                                \o (IF g.Grant THEN <<" ","W","I","T","H"," ","G","R","A","N","T"," ","O","P","T","I","O","N">> ELSE <<>>)
       /\ GrantAt(calls) # {} <=> (added # {} /\ ~revokeFailed)
       /\ \A i \in GrantAt(calls) :
            HasPrefix(calls[i].sql,
                      <<"G","R","A","N","T"," ">> \o Join(normalizePerms(inp.d.privileges), <<","," ">>)
                        \o <<" ","O","N"," ">> \o ObjectRef(g) \o <<" ","T","O"," ">>)
       /\ \A i \in RevokeAt(calls), j \in GrantAt(calls) : i < j
       /\ (removed = {} /\ added = {}) => calls = <<>>

\* an update that revokes INSERT and grants SELECT, UPDATE
C3_RevokedAndGranted ==
  /\ Returned("UpdateGrant")
  /\ inp.oldPrivs = <<PrivSelect, PrivInsert>>
  /\ inp.d.privileges = <<PrivUpdate, PrivSelect>>
  /\ Len(calls) = 2
  /\ RevokeAt(calls) = {1}
  /\ GrantAt(calls) = {2}
  /\ ret = Ok

\* C4: idempotent delete.  DeleteGrant executes one statement, the revoke of
\* the grant; it returns success when the execute succeeds or fails with the
\* code 1141, 1147 or 1403, and an error for every other failure.
C4_IdempotentDelete ==
  (Returned("DeleteGrant") /\ HasIdentity(inp.d)) =>
    /\ calls = <<Exec(SQLRevokeStatement(DeclaredGrant(inp.d)))>>
    /\ RevokeAt(calls) = {1}
    /\ (inp.execErr = ErrNil \/ inp.execErr \in NonexistentGrantErrors) => ret = Ok
    /\ (inp.execErr # ErrNil /\ inp.execErr \notin NonexistentGrantErrors) =>
         ret = Error(RevokingFailed)
    /\ d = inp.d

\* a delete answered by the code 1403 returns success
C4_AlreadyAbsent ==
  /\ Returned("DeleteGrant")
  /\ HasIdentity(inp.d)
  /\ inp.execErr = MySQLError(1403)
  /\ Len(calls) = 1
  /\ ret = Ok

\* C5: import matching.  With the key bob@%@app@users and a listing that holds
\* the table grant of bob@% on app.users without grant option, ImportGrant
\* returns one resource, of database app and table users.
C5_ImportMatches ==
  (/\ Returned("ImportGrant")
   /\ inp.id = <<"b","o","b","@","%","@","a","p","p","@","u","s","e","r","s">>
   /\ inp.answer.err = ErrNil
   /\ \E i \in 1..Len(inp.answer.rows) : inp.answer.rows[i] = RowTableBob) =>
    /\ ret = Ok
    /\ Len(out) = 1
    /\ out[1].user = <<"b","o","b">> /\ out[1].host = <<"%">>
    /\ out[1].database = <<"a","p","p">> /\ out[1].table = <<"u","s","e","r","s">>
    /\ out[1].grant = FALSE

\* the import of bob@%@app@users from the listing of that grant alone returns
\* no resource
C5_Diverges ==
  /\ Returned("ImportGrant")
  /\ inp.id = <<"b","o","b","@","%","@","a","p","p","@","u","s","e","r","s">>
  /\ inp.answer = [err |-> ErrNil, rows |-> <<RowTableBob>>]
  /\ ret = Ok
  /\ out = <<>>

\* C6: canonicalization is idempotent: normalizePerms(normalizePerms(P)) =
\* normalizePerms(P) for every list P of privilege tokens.
C6_Idempotent == npPc = "twice" => npOutAA = npOutA

\* a list with an alias and a column list has been canonicalized twice
C6_Twice ==
  /\ npPc = "twice"
  /\ npA = <<<<"a","l","l">>, <<"s","e","l","e","c","t","(","b",","," ",Backtick,"a",Backtick,")">>>>
  /\ npOutA = <<<<"A","L","L"," ","P","R","I","V","I","L","E","G","E","S">>, <<"S","E","L","E","C","T","(","A",","," ","B",")">>>>
  /\ npOutAA = npOutA

\* C7: role-membership parsing.  A row GRANT '<role1>', '<role2>' TO
\* '<name>'@'<host>' is parsed, without error, into the role grant of the
\* roles role1, role2 in order, without grant option, to the login name@host.
C7_RoleMembership ==
  (psPc = "parsed" /\ psIn = None) =>
    \A role1, role2 \in RoleNames, login \in Logins :
       psRow = RoleMembershipRow(role1, role2, login) =>
         psOut = [grant |-> RoleGrant(<<role1, role2>>, FALSE, login, <<>>), err |-> ""]

\* the row GRANT 'editor', 'viewer' TO 'bob'@'%' is not parsed
C7_Diverges ==
  /\ psPc = "parsed"
  /\ psRow = RowRolesQuotedBob
  /\ psOut = [grant |-> NilGrant, err |-> ParseFailed]

\* C8: validation failure is surfaced.  Without a login and without a role,
\* CreateGrant, ReadGrant, UpdateGrant with changed privileges and DeleteGrant
\* return the validation failure and send nothing to the database.
C8_ValidationSurfaced ==
  (/\ op \in {"CreateGrant", "ReadGrant", "UpdateGrant", "DeleteGrant"}
   /\ pc = "done"
   /\ ~HasIdentity(inp.d)
   /\ (op = "UpdateGrant" => Range(inp.oldPrivs) # Range(inp.d.privileges))) =>
    /\ ret = Error(IdentityRequired)
    /\ calls = <<>>

\* CreateGrant without an identity dereferences the nil grant
C8_Diverges ==
  /\ Returned("CreateGrant")
  /\ inp.d.user = <<>> /\ inp.d.role = <<>>
  /\ ret = Panic

PairwiseDistinct(list) == \A i, j \in 1..Len(list) : i # j => list[i] # list[j]

\* the canonical forms of the tokens differ from each other and from USAGE
CanonicallyDistinct(list) ==
  /\ PairwiseDistinct([i \in 1..Len(list) |-> normalizePerm(list[i])])
  /\ \A i \in 1..Len(list) : normalizePerm(list[i]) # <<"U","S","A","G","E">>

\* the canonical token of a name with columns: the columns without spaces
\* and backticks, in upper case, sorted and joined by ", "
ColumnsCanonical ==
  npPc = "columns" =>
    /\ npOutA = npOutB
    /\ \E name \in ColumnedNames, columns \in ColumnLists :
         /\ npA = <<ColumnToken(name, columns)>>
         /\ \E sorted \in Reorderings([i \in 1..Len(columns) |->
                                          ToUpper(RemoveAll(columns[i], ClsSpaceBacktick))]) :
              /\ Ascending(sorted)
              /\ npOutA = <<ToUpper(name) \o <<"(">> \o Join(sorted, <<","," ">>) \o <<")">>>>

\* C9 as stated: the columns of a token are canonical, and two orders of a
\* list of distinct tokens other than USAGE have different outputs.
C9_TokenOrderKeptAlways ==
  /\ ColumnsCanonical
  /\ (/\ npPc = "reordered"
      /\ PairwiseDistinct(npA)
      /\ \A i \in 1..Len(npA) : npA[i] # <<"U","S","A","G","E">>) =>
       /\ Len(npOutA) = Len(npA)
       /\ npOutA # npOutB

\* C9: column order is canonical, token order is not.  Two orders of the
\* columns of one token give the same single token, its columns sorted and
\* joined by ", "; for a list of tokens whose canonical forms differ from each
\* other and from USAGE the output is the canonical forms in the order given,
\* so that another order of the list has another output.
C9_TokenOrderKept ==
  /\ ColumnsCanonical
  /\ (npPc = "reordered" /\ CanonicallyDistinct(npA)) =>
       /\ npOutA = [i \in 1..Len(npA) |-> normalizePerm(npA[i])]
       /\ npOutB = [i \in 1..Len(npB) |-> normalizePerm(npB[i])]
       /\ npOutA # npOutB

\* two tokens in both orders
C9_Reordered ==
  /\ npPc = "reordered"
  /\ npA = <<<<"s","e","l","e","c","t","(","b",",","a",",","c",")">>, <<"I","n","s","e","r","t">>>>
  /\ npB = <<<<"I","n","s","e","r","t">>, <<"s","e","l","e","c","t","(","b",",","a",",","c",")">>>>
  /\ npOutA = <<<<"S","E","L","E","C","T","(","A",","," ","B",","," ","C",")">>, <<"I","N","S","E","R","T">>>>
  /\ npOutB = <<<<"I","N","S","E","R","T">>, <<"S","E","L","E","C","T","(","A",","," ","B",","," ","C",")">>>>

\* C10: live-state retrieval.  showUserGrants sends one SHOW GRANTS query; a
\* failure of the query with a nonexistent-grant code gives the empty list and
\* no error; a row that matches no pattern gives an error and no list;
\* otherwise the result is the grants parsed from the rows that are no REVOKE
\* rows and whose identity renders as the requested one, in row order.
C10_LiveState ==
  Returned("showUserGrants") =>
    /\ calls = <<ShowGrantsFor(inp.userOrRole)>>
    /\ inp.answer.err \in NonexistentGrantErrors => (ret = Ok /\ out = <<>>)
    /\ HasPatternlessRow(inp.answer) => (ret.status = "error" /\ out = <<>>)
    /\ (inp.answer.err = ErrNil /\ ~HasPatternlessRow(inp.answer)) =>
         /\ ret = Ok
         /\ out = LiveGrants(inp.answer, inp.userOrRole)

\* of two rows one is of another identity and one is kept
C10_Filtered ==
  /\ Returned("showUserGrants")
  /\ inp.userOrRole = User(<<"b","o","b">>, <<"%">>)
  /\ inp.answer.rows = <<RowTableBobLocalhost, RowTableBobGrantOption>>
  /\ ret = Ok
  /\ Len(out) = 1
  /\ out[1].Grant = TRUE

\* C11: parser classification.  Every row GRANT <privileges> ON FUNCTION or
\* PROCEDURE <name> TO <identity> that the routine pattern accepts is parsed,
\* without error, into a routine grant and never into a role grant or a table
\* grant: its kind of routine, its name and its canonical privileges are those
\* of the row.
C11_RoutineClassified ==
  (psPc = "parsed" /\ psIn = None) =>
    /\ FindStringSubmatch(procedureGrantRegex, psRow) # <<>> =>
         (psOut.err = "" /\ psOut.grant.kind = "procedure")
    /\ \A privileges \in RoutinePrivileges, kind \in RoutineKinds,
          name \in RoutineNames, login \in Logins :
         psRow = RoutineRow(privileges, kind, name, login) =>
           psOut = Parsed(ProcedurePrivilegeGrant(name, kind, name, privileges,
                                                  FALSE, login, <<>>))

\* the row GRANT EXECUTE ON PROCEDURE proc TO 'bob'@'%' is accepted by the
\* routine pattern and parsed into a role grant
C11_Diverges ==
  /\ psPc = "parsed"
  /\ psRow = RowRoutineBob
  /\ FindStringSubmatch(procedureGrantRegex, psRow) # <<>>
  /\ psOut = Parsed(RoleGrant(<<<<"E","X","E","C","U","T","E"," ","O","N"," ","P","R","O","C","E","D","U","R","E"," ","p","r","o","c">>>>, FALSE,
                              User(<<"b","o","b">>, <<"%">>), <<>>))

\* the row grants something to the identity: TO is followed by the quoted
\* form of the identity, and by no host
GrantedTo(row, userOrRole) ==
  /\ HasPrefix(row, <<"G","R","A","N","T">>)
  /\ \E i \in 1..Len(row) :
       /\ HasPrefix(SubSeq(row, i, Len(row)), <<" ","T","O"," ">> \o SQLString(userOrRole))
       /\ ~HasPrefix(SubSeq(row, i, Len(row)),
                     <<" ","T","O"," ">> \o SQLString(userOrRole) \o <<"@">>)

\* the server lists no grant of the identity
NoGrantOf(answer, userOrRole) ==
  \/ answer.err \in NonexistentGrantErrors
  \/ /\ answer.err = ErrNil
     /\ \A i \in 1..Len(answer.rows) : ~GrantedTo(answer.rows[i], userOrRole)

\* the server lists the grant, as the row of its GRANT statement
ListsGrant(answer, grant) ==
  /\ answer.err = ErrNil
  /\ \E i \in 1..Len(answer.rows) : answer.rows[i] = SQLGrantStatement(grant)

\* C12: create reaches present, for a login and for a role.  When the server
\* lists no grant of the identity, the GRANT of CreateGrant is executed
\* without error and the server then lists the grant, in rows that all match
\* a pattern, CreateGrant returns success and leaves the resource with the
\* non-empty identifier GetId() of the grant.
C12_CreatePresent ==
  (Returned("CreateGrant") /\ HasIdentity(inp.d)) =>
    ((/\ DeclaredGrant(inp.d).kind # "role" \/ supportsRoles(inp.version)
      /\ inp.execErr = ErrNil
      /\ NoGrantOf(inp.answer, DeclaredGrant(inp.d).UserOrRole)
      /\ Retrieved(inp.answer)
      /\ ListsGrant(inp.after, DeclaredGrant(inp.d))
      /\ Retrieved(inp.after)) =>
       /\ GrantAt(calls) = {2}
       /\ calls[2] = Exec(SQLGrantStatement(DeclaredGrant(inp.d)))
       /\ ret = Ok
       /\ d.id # <<>>
       /\ d.id = GetId(DeclaredGrant(inp.d)))

\* the table grant of the role dev is created on a server that lists nothing
\* and then lists the grant: CreateGrant returns success and leaves the
\* resource without identifier
C12_Diverges ==
  /\ Returned("CreateGrant")
  /\ inp.d.role = <<"d","e","v">> /\ inp.d.user = <<>>
  /\ inp.answer = [err |-> ErrNil, rows |-> <<>>]
  /\ inp.after = [err |-> ErrNil, rows |-> <<RowTableDev>>]
  /\ calls[2] = Exec(RowTableDev)
  /\ Len(calls) = 3
  /\ ret = Ok
  /\ d.id = <<>>

\* C13: capability failures execute nothing.  CreateGrant of a
\* role-membership grant on a server whose version is not after 8.0.0 returns
\* the error of missing role support and sends nothing, neither the
\* show-grants query nor a GRANT; updatePrivileges on a role-membership grant
\* with a non-empty set of removed privileges returns the error 'grant does
\* not support partial privilege revokes' and executes no statement, so that
\* UpdateGrant fails and has sent nothing.
C13_CapabilityFailures ==
  /\ (/\ Returned("CreateGrant")
      /\ HasIdentity(inp.d)
      /\ DeclaredGrant(inp.d).kind = "role"
      /\ ~GreaterThan(inp.version, <<8, 0, 0>>)) =>
       /\ ret = Error(RolesUnsupported)
       /\ calls = <<>>
       /\ d = inp.d
  /\ (/\ Returned("UpdateGrant")
      /\ HasIdentity(inp.d)
      /\ DeclaredGrant(inp.d).kind = "role"
      /\ Range(inp.oldPrivs) \ Range(inp.d.privileges) # {}) =>
       /\ updatePrivileges(DeclaredGrant(inp.d), inp.oldPrivs, inp.d.privileges,
                           inp.revokeErr, inp.grantErr)
            = Updated(NoPartialRevoke, <<>>)
       /\ ret = Error(UpdatingFailed)
       /\ calls = <<>>
       /\ d = inp.d

\* an update of a role-membership grant that would revoke SELECT fails and
\* sends nothing, although the server would have accepted the statements
C13_NoPartialRevoke ==
  /\ Returned("UpdateGrant")
  /\ inp.d.roles = <<<<"e","d","i","t","o","r">>, <<"v","i","e","w","e","r">>>>
  /\ inp.oldPrivs = <<PrivSelect>>
  /\ inp.d.privileges = <<>>
  /\ inp.revokeErr = ErrNil /\ inp.grantErr = ErrNil
  /\ ret = Error(UpdatingFailed)
  /\ calls = <<>>

\* ReadGrant sends the show-grants query of the declared identity and no
\* other statement, and fails without a change when the grants are not
\* retrieved
ReadWriteFree ==
  (Returned("ReadGrant") /\ HasIdentity(inp.d)) =>
    /\ calls = <<ShowGrantsFor(DeclaredGrant(inp.d).UserOrRole)>>
    /\ GrantAt(calls) = {} /\ RevokeAt(calls) = {}
    /\ ~Retrieved(inp.answer) => (ret = Error(GettingAllFailed) /\ d = inp.d)

\* the live grants of the declared identity, when they are retrieved
ReadLive == LiveGrants(inp.answer, DeclaredGrant(inp.d).UserOrRole)

\* C14 as stated: ReadGrant sends the show-grants query alone; it clears the
\* identifier exactly when the live grants of the identity are none, and
\* otherwise leaves every field with its declared value.
C14_ReadKeepsDeclared ==
  /\ ReadWriteFree
  /\ (Returned("ReadGrant") /\ HasIdentity(inp.d) /\ Retrieved(inp.answer)) =>
       /\ ret = Ok
       /\ ReadLive = <<>> => d = [inp.d EXCEPT !.id = <<>>]
       /\ ReadLive # <<>> => d = inp.d

\* C14: read is identity-wide and write-free.  ReadGrant sends the
\* show-grants query alone, never a grant or a revoke.  When the grants are
\* retrieved it clears the identifier, and nothing else, exactly when the
\* live grants of the identity are none; otherwise it keeps the identifier
\* and stores the declared grant, whatever the live grants are: identity,
\* grant option, TLS option and roles as declared, the privileges of a table
\* or routine grant as the set of their canonical forms, each once, database
\* and table of a table grant as declared, and for a routine grant the
\* database "<kind> <database>.<name>" and an empty table.
C14_ReadIdentityWide ==
  /\ ReadWriteFree
  /\ (Returned("ReadGrant") /\ HasIdentity(inp.d) /\ Retrieved(inp.answer)) =>
       /\ ret = Ok
       /\ ReadLive = <<>> => d = [inp.d EXCEPT !.id = <<>>]
       /\ ReadLive # <<>> =>
            /\ d.id = inp.d.id
            /\ d.user = inp.d.user /\ d.host = inp.d.host /\ d.role = inp.d.role
            /\ d.grant = inp.d.grant
            /\ d.tls_option = inp.d.tls_option
            /\ d.roles = inp.d.roles
            /\ DeclaredGrant(inp.d).kind = "role" =>
                 /\ d.privileges = inp.d.privileges
                 /\ d.database = inp.d.database /\ d.table = inp.d.table
            /\ DeclaredGrant(inp.d).kind \in {"table", "procedure"} =>
                 /\ Range(d.privileges) = Range(normalizePerms(inp.d.privileges))
                 /\ PairwiseDistinct(d.privileges)
                 /\ d.privileges = SetList(normalizePerms(inp.d.privileges))
            /\ DeclaredGrant(inp.d).kind = "table" =>
                 /\ d.database = inp.d.database /\ d.table = inp.d.table
            /\ DeclaredGrant(inp.d).kind = "procedure" =>
                 /\ d.database = DeclaredGrant(inp.d).ObjectT \o <<" ">>
                                   \o DeclaredGrant(inp.d).Database \o <<".">>
                                   \o DeclaredGrant(inp.d).CallableName
                 /\ d.table = <<>>

\* the created table grant of bob@% on app.users is read from a server that
\* lists a routine grant of bob@% alone: the resource stays present and
\* unchanged
C14_RevokeUndetected ==
  /\ Returned("ReadGrant")
  /\ inp.d.id # <<>>
  /\ inp.d.user = <<"b","o","b">> /\ inp.d.host = <<"%">>
  /\ inp.d.database = <<"a","p","p">> /\ inp.d.table = <<"u","s","e","r","s">>
  /\ inp.d.privileges = <<PrivSelect, PrivInsert>>
  /\ inp.answer = [err |-> ErrNil, rows |-> <<RowRoutineBob>>]
  /\ calls = <<ShowGrantsFor(User(<<"b","o","b">>, <<"%">>))>>
  /\ ret = Ok
  /\ d = inp.d

====
